---- MODULE Spec2Model ----
(***************************************************************************)
(* A model of the transip_stack client library: the session lifecycle of   *)
(* Stack (login, logout, the context manager), its working directory and   *)
(* path lookups, the paginated listing generators ls and walk, the WebDAV   *)
(* transfer operations (upload, mkdir, download, download_into), the user  *)
(* management of Stack and StackUser, the share and move operations of     *)
(* StackNode, the anti-forgery token of the StackHTTP transport, and the   *)
(* bulk upload of the command line.                                        *)
(*                                                                         *)
(* A Python str is modelled as a sequence of one-character strings, so     *)
(* "/a/b" is <<"/", "a", "/", "b">>.  The remote service is the            *)
(* environment: every response it gives is an input of the action that     *)
(* issues the request.                                                     *)
(***************************************************************************)
EXTENDS Integers, Sequences, FiniteSets, TLC

\* ------------------------------------------------------------------ bounds

\* Most requests recorded in the HTTP log of the session model.
MaxRequests == 3

\* ------------------------------------------------------- session: variables

VARIABLES
    logged_in,      \* Stack.__logged_in
    phase,          \* position relative to a `with Stack(...)` block
    httpLog,        \* requests sent through Stack.http, oldest first
    blockStart,     \* Len(httpLog) when the current/last block was entered
    authAtExit,     \* __logged_in as __exit__ found it
    lastCall        \* the last login/logout call: op, status, raised, before

sessionVars == <<logged_in, phase, httpLog, blockStart, authAtExit, lastCall>>

\* ---------------------------------------------------------- paths: variables

VARIABLES
    cwdRaw,         \* Stack.__cwd
    localLinks,     \* symbolic links of the local filesystem: <<link, target>>
    lastOp          \* the last cd/file/directory call and its outcome

pathVars == <<cwdRaw, localLinks, lastOp>>

\* ------------------------------------------------------- transfer: variables

VARIABLES
    dav,            \* the files held behind the WebDAV endpoint: key -> bytes
    lastUpload,     \* the last upload or mkdir call and its outcome
    lastDownload    \* the last download or download_into call and its outcome

transferVars == <<dav, lastUpload, lastDownload>>

\* -------------------------------------------------------- listing: variables

VARIABLES
    remoteRoot,     \* the service's listing of the listed directory
    remoteSub,      \* the service's listing of each of its sub-directories
    gen,            \* the running ls/walk generator
    listRequests,   \* the GET /api/files requests it has sent, oldest first
    yielded         \* the nodes it has yielded, oldest first

listVars == <<remoteRoot, remoteSub, gen, listRequests, yielded>>

\* ---------------------------------------------------------- users: variables

VARIABLES
    enforce_password_policy,  \* Stack.enforce_password_policy
    userProps,      \* StackUser._props of the user object in hand
    lastUserOp      \* the last user call: its arguments, requests and outcome

userVars == <<enforce_password_policy, userProps, lastUserOp>>

\* ---------------------------------------------------------- nodes: variables

VARIABLES
    nodeClass,      \* the class of the node object in hand
    nodeProps,      \* StackNode._props of the node object in hand
    lastNodeOp      \* the last node call: its arguments and outcome

nodeVars == <<nodeClass, nodeProps, lastNodeOp>>

\* ------------------------------------------------------ transport: variables

VARIABLES
    csrfCache,      \* what lru_cache holds for StackHTTP.csrf_token
    wire,           \* requests the transport sent to the server, oldest first
    lastHttp        \* the last StackHTTP.request call and its outcome

httpVars == <<csrfCache, wire, lastHttp>>

\* ---------------------------------------------------- bulk upload: variables

VARIABLES
    bulkArg,        \* the local file or directory tree given to `upload`
    bulkPc,         \* position of the main thread inside `upload`
    bulkTodo,       \* directories the mkdir loop has still to create
    bulkCalling,    \* the directory whose stack.mkdir call is in progress
    bulkQueue,      \* files handed to the pool and not yet taken by a worker
    bulkWorkers,    \* per worker thread: the file whose upload_file it runs
    bulkEvents      \* calls and returns in the order they happened

bulkVars ==
    <<bulkArg, bulkPc, bulkTodo, bulkCalling, bulkQueue, bulkWorkers,
      bulkEvents>>

vars ==
    <<sessionVars, pathVars, transferVars, listVars, userVars, nodeVars,
      httpVars, bulkVars>>

\* Status codes the service may answer with.
Statuses == {200, 301, 302, 403, 500}

NoCall == [op |-> "none", status |-> 0, raised |-> FALSE, before |-> FALSE]

\* ------------------------------------------------------- session: operations

LoginSucceedsOnly302(status) == status = 302

\* stack.py:78  resp.status_code in (301, 302)
LoginSucceeds(status) == status \in {301, 302}

LogoutKeepsFlagOnError(flag, status) == flag /\ status \notin {200, 301, 302}

\* stack.py:92  self.__logged_in = False, whatever the response was
LoggedInAfterLogout(flag, status) == FALSE

ExitAlwaysLogsOut(flag) == TRUE

\* stack.py:59  if self.__logged_in: self.logout()
ExitCallsLogout(flag) == flag

Request(by, method, url, status) ==
    [by |-> by, method |-> method, url |-> url, status |-> status]

\* Stack.login, called directly (inside or outside a with block).
Login(status) ==
    /\ Len(httpLog) < MaxRequests
    /\ httpLog' = Append(httpLog, Request("call", "POST", "/login", status))
    /\ logged_in' = LoginSucceeds(status)
    /\ lastCall' = [op |-> "login", status |-> status,
                    raised |-> ~LoginSucceeds(status), before |-> logged_in]
    /\ phase' = IF phase = "body" THEN "body" ELSE "idle"
    /\ UNCHANGED <<blockStart, authAtExit>>

\* Stack.logout, called directly.
Logout(status) ==
    /\ Len(httpLog) < MaxRequests
    /\ httpLog' = Append(httpLog, Request("call", "GET", "/logout", status))
    /\ logged_in' = LoggedInAfterLogout(logged_in, status)
    /\ lastCall' = [op |-> "logout", status |-> status,
                    raised |-> FALSE, before |-> logged_in]
    /\ phase' = IF phase = "body" THEN "body" ELSE "idle"
    /\ UNCHANGED <<blockStart, authAtExit>>

\* Stack.__enter__: login; when login raises the block is never entered and
\* Python does not call __exit__.
WithEnter(status) ==
    /\ phase # "body"
    /\ Len(httpLog) < MaxRequests
    /\ httpLog' = Append(httpLog, Request("enter", "POST", "/login", status))
    /\ logged_in' = LoginSucceeds(status)
    /\ lastCall' = [op |-> "login", status |-> status,
                    raised |-> ~LoginSucceeds(status), before |-> logged_in]
    /\ blockStart' = Len(httpLog)
    /\ phase' = IF LoginSucceeds(status) THEN "body" ELSE "enterFailed"
    /\ UNCHANGED authAtExit

\* Stack.__exit__, reached when the body ends normally or by an exception
\* (exc); it returns None, so the exception propagates afterwards.
WithExit(exc, status) ==
    /\ phase = "body"
    /\ authAtExit' = logged_in
    /\ IF ExitCallsLogout(logged_in)
         THEN /\ Len(httpLog) < MaxRequests
              /\ httpLog' = Append(httpLog,
                                   Request("exit", "GET", "/logout", status))
              /\ logged_in' = LoggedInAfterLogout(logged_in, status)
              /\ lastCall' = [op |-> "logout", status |-> status,
                              raised |-> FALSE, before |-> logged_in]
         ELSE UNCHANGED <<httpLog, logged_in, lastCall>>
    /\ phase' = IF exc THEN "leftByException" ELSE "left"
    /\ UNCHANGED blockStart

SessionInit ==
    /\ logged_in = FALSE
    /\ phase = "idle"
    /\ httpLog = <<>>
    /\ blockStart = 0
    /\ authAtExit = FALSE
    /\ lastCall = NoCall

PathIdle ==
    /\ cwdRaw = <<"/">>
    /\ localLinks = {}
    /\ lastOp = [op |-> "none"]

TransferIdle ==
    /\ dav = <<>>
    /\ lastUpload = [op |-> "none"]
    /\ lastDownload = [op |-> "none"]

ListIdle ==
    /\ remoteRoot = <<>>
    /\ remoteSub = <<>>
    /\ gen = [kind |-> "none"]
    /\ listRequests = <<>>
    /\ yielded = <<>>

UserIdle ==
    /\ enforce_password_policy = FALSE
    /\ userProps = <<>>
    /\ lastUserOp = [op |-> "none"]

NodeIdle ==
    /\ nodeClass = "none"
    /\ nodeProps = <<>>
    /\ lastNodeOp = [op |-> "none"]

HttpIdle ==
    /\ csrfCache = <<>>
    /\ wire = <<>>
    /\ lastHttp = [op |-> "none"]

BulkIdle ==
    /\ bulkArg = [isfile |-> FALSE, dirs |-> {}, files |-> <<>>]
    /\ bulkPc = "none"
    /\ bulkTodo = <<>>
    /\ bulkCalling = <<>>
    /\ bulkQueue = <<>>
    /\ bulkWorkers = <<>>
    /\ bulkEvents = <<>>

OthersIdle == HttpIdle /\ BulkIdle

InitSession ==
    /\ SessionInit /\ PathIdle /\ TransferIdle /\ ListIdle /\ UserIdle /\ NodeIdle
    /\ OthersIdle

notSession ==
    <<pathVars, transferVars, listVars, userVars, nodeVars,
      httpVars, bulkVars>>

SessionNext ==
    \/ \E status \in Statuses : Login(status) /\ UNCHANGED notSession
    \/ \E status \in Statuses : Logout(status) /\ UNCHANGED notSession
    \/ \E status \in Statuses : WithEnter(status) /\ UNCHANGED notSession
    \/ \E exc \in BOOLEAN, status \in Statuses :
          WithExit(exc, status) /\ UNCHANGED notSession

SpecSession == InitSession /\ [][SessionNext]_vars

\* ---------------------------------------------------------- session: claims

\* The requests sent since the current (or last) with block was entered.
BlockRequests == SubSeq(httpLog, blockStart + 1, Len(httpLog))

RequestsBy(log, who) == {i \in 1..Len(log) : log[i].by = who}

\* C1: after any call to login, from any prior state, the session is
\* authenticated exactly when the login POST answered 301 or 302, and login
\* raised StackException exactly when it is not authenticated.
C1_LoginAuthenticatesIffRedirect ==
    lastCall.op = "login" =>
        /\ logged_in <=> lastCall.status \in {301, 302}
        /\ lastCall.raised <=> ~logged_in
        /\ httpLog[Len(httpLog)].url = "/login"
        /\ httpLog[Len(httpLog)].status = lastCall.status

\* C1 witness: a login from an authenticated session answered with a
\* non-redirect status has raised and left the session unauthenticated.
C1_Witness ==
    /\ lastCall.op = "login"
    /\ lastCall.before
    /\ lastCall.status = 200
    /\ lastCall.raised
    /\ ~logged_in

\* C2: after any call to logout the session is not authenticated, whatever
\* the response status and whatever the state before; logout does not raise.
C2_LogoutAlwaysClears ==
    lastCall.op = "logout" => ~logged_in /\ ~lastCall.raised

\* C2 witness: a logout of an authenticated session answered with an error.
C2_Witness ==
    /\ lastCall.op = "logout"
    /\ lastCall.before
    /\ lastCall.status = 500
    /\ ~logged_in

\* C3: a with block sends exactly one login on entry; once it is left,
\* normally or by an exception, __exit__ has sent exactly one logout when the
\* session was still authenticated and none otherwise, and the session is not
\* authenticated; when the login on entry fails nothing but that login is sent.
C3_ManagedBlock ==
    LET seg == BlockRequests
        entered == RequestsBy(seg, "enter")
        exited == RequestsBy(seg, "exit")
    IN  /\ phase \in {"body", "left", "leftByException"} =>
            /\ entered = {1}
            /\ seg[1].url = "/login"
        /\ phase = "body" => exited = {}
        /\ phase \in {"left", "leftByException"} =>
            /\ ~logged_in
            /\ exited = IF authAtExit THEN {Len(seg)} ELSE {}
            /\ \A i \in exited : seg[i].url = "/logout"
        /\ phase = "enterFailed" =>
            /\ Len(seg) = 1
            /\ seg[1].by = "enter" /\ seg[1].url = "/login"
            /\ ~logged_in

\* C3 witness: a block left by an exception while the session was still
\* authenticated, its logout answered with an error.
C3_Witness ==
    /\ phase = "leftByException"
    /\ authAtExit
    /\ httpLog[Len(httpLog)].by = "exit"
    /\ httpLog[Len(httpLog)].status = 500

\* C3 second case: a block left after its body had logged out already.
C3_WitnessNoLogout ==
    /\ phase = "left"
    /\ ~authAtExit
    /\ RequestsBy(BlockRequests, "exit") = {}

\* ------------------------------------------------------------ paths: strings

\* Longest working directory (in characters) the path model explores.
MaxPathLen == 4

\* str.startswith
StartsWith(s, prefix) ==
    /\ Len(s) >= Len(prefix)
    /\ SubSeq(s, 1, Len(prefix)) = prefix

\* str.endswith
EndsWith(s, suffix) ==
    /\ Len(s) >= Len(suffix)
    /\ SubSeq(s, Len(s) - Len(suffix) + 1, Len(s)) = suffix

RECURSIVE RStrip(_, _)
\* str.rstrip(c): every trailing c removed
RStrip(s, c) ==
    IF s # <<>> /\ s[Len(s)] = c THEN RStrip(SubSeq(s, 1, Len(s) - 1), c) ELSE s

RECURSIVE LStrip(_, _)
\* str.lstrip(c): every leading c removed
LStrip(s, c) ==
    IF s # <<>> /\ s[1] = c THEN LStrip(Tail(s), c) ELSE s

\* posixpath.join(a, b): an absolute b replaces a; otherwise b is appended,
\* with a separator unless a is empty or already ends with one.
Join(a, b) ==
    IF StartsWith(b, <<"/">>) THEN b
    ELSE IF a = <<>> \/ EndsWith(a, <<"/">>) THEN a \o b
    ELSE a \o <<"/">> \o b

RECURSIVE SplitSep(_, _, _)
\* s.split("/") with the component under construction in cur
SplitSep(s, cur, acc) ==
    IF s = <<>> THEN Append(acc, cur)
    ELSE IF s[1] = "/" THEN SplitSep(Tail(s), <<>>, Append(acc, cur))
    ELSE SplitSep(Tail(s), Append(cur, s[1]), acc)

Components(s) == SplitSep(s, <<>>, <<>>)

RECURSIVE JoinSep(_)
\* "/" + "/".join(comps), and "/" for no component
JoinSep(comps) ==
    IF comps = <<>> THEN <<>>
    ELSE <<"/">> \o comps[1] \o JoinSep(Tail(comps))

Render(comps) == IF comps = <<>> THEN <<"/">> ELSE JoinSep(comps)

IsLink(links, path) == \E l \in links : l[1] = path

LinkTarget(links, path) == (CHOOSE l \in links : l[1] = path)[2]

RECURSIVE Resolve(_, _, _)
\* posixpath._joinrealpath on an absolute path: empty and "." components are
\* skipped, ".." drops the last component (the root has none to drop), any
\* other component is appended and, when the path so far is a symbolic link
\* of the local filesystem, replaced by the link's target.
Resolve(links, rest, path) ==
    IF rest = <<>> THEN path
    ELSE LET name == rest[1]
             newpath == Append(path, name)
         IN  IF name = <<>> \/ name = <<".">>
               THEN Resolve(links, Tail(rest), path)
             ELSE IF name = <<".", ".">>
               THEN Resolve(links, Tail(rest),
                            IF path = <<>> THEN path
                            ELSE SubSeq(path, 1, Len(path) - 1))
             ELSE IF IsLink(links, Render(newpath))
               THEN Resolve(links, Tail(rest),
                            Resolve(links,
                                    Components(LinkTarget(links, Render(newpath))),
                                    <<>>))
             ELSE Resolve(links, Tail(rest), newpath)

\* posixpath.realpath of an absolute path
RealPath(links, p) == Render(Resolve(links, Components(p), <<>>))

\* The purely lexical normalisation: "." and ".." collapsed, no filesystem.
NormPath(p) == RealPath({}, p)

\* --------------------------------------------------------- paths: operations

DirMime == <<"httpd/unix-directory">>

Mimes == {DirMime, <<"application/text">>, <<>>}

\* What /api/pathinfo may answer: 200 with the node's MIME type in the body
\* (possibly none), or an error status.
Responses ==
    [status : {200}, mimetype : Mimes]
        \cup [status : {403, 404, 500}, mimetype : {<<>>}]

Raise(msg, path) == [kind |-> "raise", msg |-> msg, path |-> path]

\* Stack.__node_to_object
NodeToObject(mimetype, path) ==
    IF mimetype = DirMime
      THEN [kind |-> "StackDirectory", msg |-> "", path |-> path]
      ELSE [kind |-> "StackFile", msg |-> "", path |-> path]

\* Stack.__node: the path the lookup asks for
NodePath(cwd, name) ==
    IF StartsWith(name, <<"/">>) THEN name ELSE Join(cwd, name)

\* Stack.__node
Node(cwd, name, resp) ==
    LET path == NodePath(cwd, name)
    IN  IF resp.status = 404 THEN Raise("No such file or directory.", path)
        ELSE IF resp.status # 200 THEN Raise("request failed", path)
        ELSE NodeToObject(resp.mimetype, path)

\* Stack.file
File(cwd, name, resp) ==
    LET node == Node(cwd, name, resp)
    IN  IF node.kind = "StackDirectory"
          THEN Raise("is a directory!", node.path)
          ELSE node

DirectoryUnchecked(cwd, name, resp) == Node(cwd, name, resp)

\* Stack.directory
Directory(cwd, name, resp) ==
    LET node == Node(cwd, name, resp)
    IN  IF node.kind = "StackFile"
          THEN Raise("is a file!", node.path)
          ELSE node

\* Stack.cd: the path it resolves the target to
CdPath(links, cwd, target) ==
    IF StartsWith(target, <<"/">>) THEN target
    ELSE RealPath(links, Join(cwd, target))

CdCommitsBeforeCheck(cwd, path, directory) == path

\* stack.py:134-135: __cwd is assigned after self.directory(path) returned,
\* so a raising lookup leaves it alone
CwdAfterCd(cwd, path, directory) ==
    IF directory.kind = "raise" THEN cwd ELSE path

\* Stack.cwd (and its alias pwd)
Cwd(raw) == RStrip(raw, "/") \o <<"/">>

\* Names handed to file and directory.
NodeNames == { <<>>, <<"a">>, <<"/", "a">>, <<".", ".", "/", "b">> }

\* Targets handed to cd.
PathArgs ==
    { <<"/">>, <<"/", "a">>, <<"/", "a", "/">>, <<"/", "b", "/", "/">>,
      <<"/", "a", "/", ".", ".", "/", "b">>,
      <<>>, <<"a">>, <<"b">>, <<"a", "/">>, <<".">>, <<".", ".">>,
      <<".", ".", "/", "b">>, <<"a", "/", ".", ".", "/", "b">> }

\* Stack.cd
Cd(target, resp) ==
    LET path == CdPath(localLinks, cwdRaw, target)
        directory == Directory(cwdRaw, path, resp)
    IN  /\ StartsWith(target, <<"/">>) \/ Len(path) <= MaxPathLen
        /\ cwdRaw' = CwdAfterCd(cwdRaw, path, directory)
        /\ lastOp' = [op |-> "cd", arg |-> target, before |-> cwdRaw,
                      resp |-> resp, result |-> directory]
        /\ UNCHANGED localLinks

\* Stack.file, called by the user
CallFile(name, resp) ==
    /\ lastOp' = [op |-> "file", arg |-> name, before |-> cwdRaw,
                  resp |-> resp, result |-> File(cwdRaw, name, resp)]
    /\ UNCHANGED <<cwdRaw, localLinks>>

\* Stack.directory, called by the user
CallDirectory(name, resp) ==
    /\ lastOp' = [op |-> "directory", arg |-> name, before |-> cwdRaw,
                  resp |-> resp, result |-> Directory(cwdRaw, name, resp)]
    /\ UNCHANGED <<cwdRaw, localLinks>>

\* The symbolic links the local filesystem may hold: none, or /b -> /a/b
\* (as /bin -> /usr/bin on hosts with a merged /usr).
LocalLinkSets == { {}, { << <<"/", "b">>, <<"/", "a", "/", "b">> >> } }

PathInit ==
    /\ cwdRaw = <<"/">>
    /\ localLinks \in LocalLinkSets
    /\ lastOp = [op |-> "none"]

InitPath ==
    /\ SessionInit /\ PathInit /\ TransferIdle /\ ListIdle /\ UserIdle /\ NodeIdle
    /\ OthersIdle

notPath ==
    <<sessionVars, transferVars, listVars, userVars, nodeVars,
      httpVars, bulkVars>>

PathNext ==
    \/ \E target \in PathArgs, resp \in Responses :
          Cd(target, resp) /\ UNCHANGED notPath
    \/ \E name \in NodeNames, resp \in Responses :
          CallFile(name, resp) /\ UNCHANGED notPath
    \/ \E name \in NodeNames, resp \in Responses :
          CallDirectory(name, resp) /\ UNCHANGED notPath

SpecPath == InitPath /\ [][PathNext]_vars

\* ------------------------------------------------------------ paths: claims

CdFailed(resp) == resp.status # 200 \/ resp.mimetype # DirMime

\* C4: when the target of cd does not exist, is a file, or its lookup fails
\* otherwise, cd raises StackException and the working directory is what it
\* was before; it changes only after the remote directory check succeeded.
C4_FailedCdKeepsCwd ==
    lastOp.op = "cd" =>
        /\ CdFailed(lastOp.resp) =>
              lastOp.result.kind = "raise" /\ cwdRaw = lastOp.before
        /\ cwdRaw # lastOp.before =>
              ~CdFailed(lastOp.resp) /\ lastOp.result.kind = "StackDirectory"

\* C4 witness: away from the root, a cd to another path that turned out to be
\* a file has raised and the working directory is still the old one.
C4_Witness ==
    /\ lastOp.op = "cd"
    /\ lastOp.resp.status = 200 /\ lastOp.resp.mimetype # DirMime
    /\ lastOp.result.kind = "raise"
    /\ lastOp.result.path # lastOp.before
    /\ lastOp.before # <<"/">>
    /\ cwdRaw = lastOp.before

\* The directory the specification expects after a successful cd: the target
\* itself when absolute, otherwise the previous directory joined with the
\* target and lexically normalised; reported with one trailing '/'.
ExpectedCwd(before, target) ==
    LET resolved == IF StartsWith(target, <<"/">>) THEN target
                    ELSE NormPath(Join(Cwd(before), target))
    IN  RStrip(resolved, "/") \o <<"/">>

\* C5: after a successful cd the reported working directory is absolute, ends
\* with exactly one '/', and equals the target when that was absolute and
\* otherwise the previous directory joined with the target, '..' collapsed.
C5_CwdIsResolvedTarget ==
    (lastOp.op = "cd" /\ lastOp.result.kind # "raise") =>
        /\ StartsWith(Cwd(cwdRaw), <<"/">>)
        /\ EndsWith(Cwd(cwdRaw), <<"/">>)
        /\ ~EndsWith(Cwd(cwdRaw), <<"/", "/">>)
        /\ Cwd(cwdRaw) = ExpectedCwd(lastOp.before, lastOp.arg)

\* On a host whose filesystem holds no symbolic link on the way, cd does
\* resolve as C5 says.
CwdIsResolvedTargetWithoutLinks == localLinks = {} => C5_CwdIsResolvedTarget

\* C9: a lookup raises the does-not-exist error on 404 and an error on any
\* other non-200 status; on 200 file returns a StackFile or raises when the
\* path is a directory, directory returns a StackDirectory or raises when the
\* path is a file; neither returns a node of the other variant.
C9_LookupClassifies ==
    lastOp.op \in {"file", "directory"} =>
        LET resp == lastOp.resp
            result == lastOp.result
            isDir == resp.mimetype = DirMime
        IN  /\ resp.status = 404 =>
                  result.kind = "raise"
                      /\ result.msg = "No such file or directory."
            /\ resp.status \notin {200, 404} =>
                  result.kind = "raise"
                      /\ result.msg # "No such file or directory."
            /\ (resp.status = 200 /\ lastOp.op = "file") =>
                  IF isDir
                    THEN result.kind = "raise" /\ result.msg = "is a directory!"
                    ELSE result.kind = "StackFile"
            /\ (resp.status = 200 /\ lastOp.op = "directory") =>
                  IF isDir
                    THEN result.kind = "StackDirectory"
                    ELSE result.kind = "raise" /\ result.msg = "is a file!"
            /\ lastOp.op = "file" => result.kind # "StackDirectory"
            /\ lastOp.op = "directory" => result.kind # "StackFile"

\* C9 witness: directory() on a path the service reports as a file has raised
\* the type-mismatch error.
C9_Witness ==
    /\ lastOp.op = "directory"
    /\ lastOp.resp.status = 200
    /\ lastOp.resp.mimetype = <<"application/text">>
    /\ lastOp.result.kind = "raise"
    /\ lastOp.result.msg = "is a file!"

\* ------------------------------------------------------ listing: operations

\* Most entries of the listed directory.
MaxEntries == 3

\* Largest page size (Stack.ls_buffer_limit) explored.
MaxPage == 2

TextMime == <<"application/text">>

Orders == {"asc", "desc", "foo"}

\* The listings a sub-directory may have.
SubListings == { <<>>, <<TextMime>>, <<DirMime, TextMime>> }

RECURSIVE SeqsUpTo(_, _)
\* every sequence over S of length at most n
SeqsUpTo(S, n) ==
    IF n = 0 THEN { <<>> }
    ELSE LET shorter == SeqsUpTo(S, n - 1)
         IN  shorter \cup { Append(q, x) : q \in shorter, x \in S }

Min(a, b) == IF a < b THEN a ELSE b

Reverse(q) == [i \in 1..Len(q) |-> q[Len(q) + 1 - i]]

\* A directory is named by the positions that lead to it from the listed
\* directory (<<>>); its entries carry their own such path.
Entries(dir, mimes) ==
    [i \in 1..Len(mimes) |-> [path |-> Append(dir, i), mimetype |-> mimes[i]]]

\* The service's result set for a directory, in the order asked for.
ResultSet(root, sub, dir, order) ==
    LET mimes == IF dir = <<>> THEN root
                 ELSE IF Len(dir) = 1 THEN sub
                 ELSE <<>>
        asc == Entries(dir, mimes)
    IN  IF order = "desc" THEN Reverse(asc) ELSE asc

\* The service's answer to GET /api/files: the total and one page of nodes.
FilesResponse(root, sub, request) ==
    LET all == ResultSet(root, sub, request.dir, request.order)
    IN  [amount |-> Len(all),
         nodes |-> SubSeq(all, request.offset + 1,
                          Min(request.offset + request.limit, Len(all)))]

FilesRequestAlwaysAsc(path, offset, limit, order) ==
    [dir |-> path, offset |-> offset, limit |-> limit, order |-> "asc"]

\* Stack.__files: the parameters of the request
FilesRequest(path, offset, limit, order) ==
    [dir |-> path, offset |-> offset, limit |-> limit, order |-> order]

\* stack.py:147 and stack.py:167
ValidOrder(order) == order \in {"asc", "desc"}

LsContinuesInclusive(offset, amount) == amount = -1 \/ offset <= amount

\* stack.py:178: the loop condition of ls; amount is -1 while it is None
LsContinues(offset, amount) == amount = -1 \/ offset < amount

NextOffsetByOne(offset, limit) == offset + 1

\* stack.py:180  offset += self.ls_buffer_limit
NextOffset(offset, limit) == offset + limit

\* A fresh ls generator over path with the order it was called with:
\* stack.py:175-176
Frame(path, order) ==
    [path |-> path, order |-> order, offset |-> 0, amount |-> -1,
     page |-> <<>>]

\* stack.py:155  self.walk(node.path, order=order)
WalkChildOrder(order) == order

\* Stack.ls / Stack.walk up to the order check: an invalid order raises
\* before the loop is entered.
Start(kind, order, limit) ==
    /\ gen.kind = "none"
    /\ gen' = [kind |-> kind, order |-> order, limit |-> limit,
               state |-> IF ValidOrder(order) THEN "running" ELSE "raised",
               frames |-> IF ValidOrder(order) THEN <<Frame(<<>>, order)>>
                          ELSE <<>>]
    /\ UNCHANGED <<remoteRoot, remoteSub, listRequests, yielded>>

Top == gen.frames[Len(gen.frames)]

WithTop(frame) == [gen.frames EXCEPT ![Len(gen.frames)] = frame]

\* One iteration of the loop of ls (stack.py:178-182) in the innermost
\* generator: a page is requested, the offset advanced, the total stored.
RequestPage ==
    /\ gen.kind # "none" /\ gen.state = "running"
    /\ Top.page = <<>>
    /\ LsContinues(Top.offset, Top.amount)
    /\ LET request == FilesRequest(Top.path, Top.offset, gen.limit, Top.order)
           files == FilesResponse(remoteRoot, remoteSub, request)
       IN  /\ listRequests' = Append(listRequests, request)
           /\ gen' = [gen EXCEPT !.frames =
                        WithTop([Top EXCEPT
                                   !.offset = NextOffset(Top.offset, gen.limit),
                                   !.amount = files.amount,
                                   !.page = files.nodes])]
    /\ UNCHANGED <<remoteRoot, remoteSub, yielded>>

\* The next node of the page: ls yields its object (stack.py:182-190); walk
\* yields it when it is a file (stack.py:157).
YieldNode ==
    /\ gen.kind # "none" /\ gen.state = "running"
    /\ Top.page # <<>>
    /\ LET node == NodeToObject(Head(Top.page).mimetype, Head(Top.page).path)
       IN  /\ gen.kind = "walk" => node.kind # "StackDirectory"
           /\ yielded' = Append(yielded, node)
           /\ gen' = [gen EXCEPT !.frames =
                        WithTop([Top EXCEPT !.page = Tail(Top.page)])]
    /\ UNCHANGED <<remoteRoot, remoteSub, listRequests>>

\* walk on a directory node: yield from self.walk(node.path, order=order)
\* (stack.py:154-155); the inner walk and its ls check the order again.
Descend ==
    /\ gen.kind = "walk" /\ gen.state = "running"
    /\ Top.page # <<>>
    /\ LET node == NodeToObject(Head(Top.page).mimetype, Head(Top.page).path)
       IN  /\ node.kind = "StackDirectory"
           /\ ValidOrder(WalkChildOrder(Top.order))
           /\ gen' = [gen EXCEPT
                        !.frames = Append(WithTop([Top EXCEPT
                                                     !.page = Tail(Top.page)]),
                                          Frame(node.path,
                                                WalkChildOrder(Top.order)))]
    /\ UNCHANGED <<remoteRoot, remoteSub, listRequests, yielded>>

\* The loop of the innermost ls ends: its generator returns, and with the
\* outermost one the whole iteration.
Return ==
    /\ gen.kind # "none" /\ gen.state = "running"
    /\ Top.page = <<>>
    /\ ~LsContinues(Top.offset, Top.amount)
    /\ gen' = [gen EXCEPT
                 !.frames = SubSeq(gen.frames, 1, Len(gen.frames) - 1),
                 !.state = IF Len(gen.frames) = 1 THEN "done" ELSE "running"]
    /\ UNCHANGED <<remoteRoot, remoteSub, listRequests, yielded>>

ListInit ==
    /\ remoteRoot \in SeqsUpTo({DirMime, TextMime}, MaxEntries)
    /\ remoteSub \in SubListings
    /\ gen = [kind |-> "none"]
    /\ listRequests = <<>>
    /\ yielded = <<>>

InitList ==
    /\ SessionInit /\ PathIdle /\ TransferIdle /\ ListInit /\ UserIdle /\ NodeIdle
    /\ OthersIdle

notList ==
    <<sessionVars, pathVars, transferVars, userVars, nodeVars,
      httpVars, bulkVars>>

ListNext ==
    \/ \E order \in Orders, limit \in 1..MaxPage :
          Start("ls", order, limit) /\ UNCHANGED notList
    \/ \E order \in Orders, limit \in 1..MaxPage :
          Start("walk", order, limit) /\ UNCHANGED notList
    \/ RequestPage /\ UNCHANGED notList
    \/ YieldNode /\ UNCHANGED notList
    \/ Descend /\ UNCHANGED notList
    \/ Return /\ UNCHANGED notList

SpecList == InitList /\ [][ListNext]_vars

\* ----------------------------------------------------------- listing: claims

\* C6: with order asc or desc every listing request of ls and of walk, at
\* every level of the recursion, carries that order; with any other order
\* the call raises StackException before a request is sent.
C6_OrderCarriedOrRejected ==
    gen.kind # "none" =>
        /\ \A i \in 1..Len(listRequests) : listRequests[i].order = gen.order
        /\ gen.order \in {"asc", "desc"} => gen.state # "raised"
        /\ gen.order \notin {"asc", "desc"} =>
              gen.state = "raised" /\ listRequests = <<>> /\ yielded = <<>>

\* C6 witness: a finished walk in descending order that listed a
\* sub-directory, every one of its requests in descending order.
C6_Witness ==
    /\ gen.kind = "walk" /\ gen.state = "done" /\ gen.order = "desc"
    /\ \E i \in 1..Len(listRequests) :
          listRequests[i].dir # <<>> /\ listRequests[i].order = "desc"

\* C6 second case: an ls with an unknown order raised and sent nothing.
C6_WitnessRejected ==
    /\ gen.kind = "ls" /\ gen.order = "foo" /\ gen.state = "raised"
    /\ remoteRoot # <<>>
    /\ listRequests = <<>>

Ceil(n, p) == (n + p - 1) \div p

LsDone == gen.kind = "ls" /\ gen.state = "done"

OffsetsAreMultiples ==
    \A i \in 1..Len(listRequests) :
        /\ listRequests[i].offset = (i - 1) * gen.limit
        /\ listRequests[i].limit = gen.limit

\* C7 as stated: for every total N >= 0 and page size P >= 1 a complete ls
\* sends exactly ceil(N/P) requests, at offsets 0, P, 2P, ...
C7_RequestsAreCeil ==
    LsDone =>
        /\ Len(listRequests) = Ceil(Len(remoteRoot), gen.limit)
        /\ OffsetsAreMultiples

\* C7 amended: a complete ls sends ceil(N/P) requests when N >= 1 and exactly
\* one request when N = 0 (the total is unknown before the first answer), at
\* offsets 0, P, 2P, ...
C7_RequestsAreCeilButAtLeastOne ==
    LsDone =>
        /\ Len(listRequests) =
              IF Len(remoteRoot) = 0 THEN 1
              ELSE Ceil(Len(remoteRoot), gen.limit)
        /\ OffsetsAreMultiples

\* C7 witness: a finished ls over several pages, the last one partly filled.
C7_Witness ==
    /\ LsDone
    /\ Len(remoteRoot) > gen.limit
    /\ Len(remoteRoot) % gen.limit # 0
    /\ Len(listRequests) >= 2

\* The object ls is expected to yield for an entry of the result set.
ExpectedObject(entry) ==
    [kind |-> IF entry.mimetype = DirMime THEN "StackDirectory"
              ELSE "StackFile",
     msg |-> "", path |-> entry.path]

ExpectedObjects(order) ==
    LET all == ResultSet(remoteRoot, remoteSub, <<>>, order)
    IN  [i \in 1..Len(all) |-> ExpectedObject(all[i])]

\* C8: over an unchanging result set a complete ls yields every entry once,
\* in the service's order, a StackDirectory exactly for the directory MIME
\* type and a StackFile otherwise; until then it has yielded a prefix.
C8_LsYieldsResultSet ==
    (gen.kind = "ls" /\ gen.state # "raised") =>
        LET expected == ExpectedObjects(gen.order)
        IN  /\ Len(yielded) <= Len(expected)
            /\ yielded = SubSeq(expected, 1, Len(yielded))
            /\ gen.state = "done" => yielded = expected

\* C8 witness: a finished descending ls that crossed a page boundary and
\* yielded both a directory and a file.
C8_Witness ==
    /\ LsDone /\ gen.order = "desc"
    /\ Len(listRequests) >= 2
    /\ Len(yielded) = Len(remoteRoot)
    /\ \E i, j \in 1..Len(yielded) :
          yielded[i].kind = "StackDirectory" /\ yielded[j].kind = "StackFile"

\* ----------------------------------------------------- transfer: operations

\* Most files held behind the WebDAV endpoint.
MaxStored == 1

\* Working directories the transfer model starts in; each is reached from the
\* initial '/' by one cd to that absolute path.
WorkingDirs == { <<"/">>, <<"/", "a">> }

\* The file argument of upload: an open binary source without or with a name
\* attribute, a path on the local disk (open() gives the descriptor that
\* path as its name), or something that is neither.
Sources ==
    { [kind |-> "io", name |-> <<>>, data |-> <<1, 2>>],
      [kind |-> "io", name |-> <<"b">>, data |-> <<1>>],
      [kind |-> "path", name |-> <<"/", "b">>, data |-> <<1, 2>>],
      [kind |-> "other", name |-> <<>>, data |-> <<>>] }

\* The name argument of upload; <<>> stands for None.
UploadNames == { <<>>, <<"a">>, <<"/", "a">> }

\* The file argument of download_into.
DownloadNames == { <<"a">>, <<"/", "a">> }

\* The buffer argument of download_into: None, a str or an empty str (which
\* have no write), or a BytesIO of the caller's.
Buffers == {"none", "str", "emptystr", "bytesio"}

\* The path argument of upload: <<>> stands for None.
UploadPaths == { <<>>, <<"/", "a">>, <<"a">> }

\* What /api/pathinfo may answer after an upload.
UploadResponses ==
    { [status |-> 200, mimetype |-> TextMime],
      [status |-> 200, mimetype |-> DirMime],
      [status |-> 404, mimetype |-> <<>>] }

\* The WebDAV client addresses a resource relative to its webdav_root
\* (stack.py:36-41): leading separators of the path make no difference.
DavKey(path) == LStrip(path, "/")

\* stack.py:300-306: the remote name and the path written to; <<>> when no
\* name can be determined
UploadName(source, name) == IF name # <<>> THEN name ELSE source.name

\* stack.py:276-277: the directory uploaded to
UploadDir(cwd, path) == IF path = <<>> THEN cwd ELSE path

UploadTarget(dir, source, name) == Join(dir, UploadName(source, name))

\* stack.py:343-346 and 357: the resource download_into reads
DownloadTarget(cwd, file) == LStrip(Join(cwd, LStrip(file, "/")), "/")

\* io.BytesIO: the bytes held and the stream position
NewBytesIO == [data |-> <<>>, pos |-> 0]

\* buffer.write(data) at the end of a buffer
BufferWrite(buffer, data) ==
    [data |-> SubSeq(buffer.data, 1, buffer.pos) \o data,
     pos |-> buffer.pos + Len(data)]

\* buffer.seek(0)
BufferRewind(buffer) == [buffer EXCEPT !.pos = 0]

\* `if not buffer: buffer = BytesIO()`: None and "" are both falsy
BufferOrDefault(buffer) ==
    IF buffer \in {"none", "emptystr"} THEN "fresh" ELSE buffer

\* hasattr(buffer, 'write')
HasWrite(buffer) == buffer \in {"fresh", "bytesio"}

\* the buffer as download_into finds it: a BytesIO of the caller's holds a
\* byte already and stands behind it
BufferBefore(buffer) ==
    IF buffer = "bytesio" THEN [data |-> <<9>>, pos |-> 1] ELSE NewBytesIO

TranslateNothing(native) == native

\* `except WebDavException as e: raise StackException(e)`: the exception a
\* caller sees for one raised by the WebDAV client
Translate(native) ==
    IF native = "WebDavException" THEN "StackException" ELSE native

Store(files, key, data) ==
    [k \in DOMAIN files \cup {key} |-> IF k = key THEN data ELSE files[k]]

\* Stack.upload; fault says that the WebDAV client raised WebDavException.
Upload(source, name, path, fault, resp) ==
    LET target == UploadTarget(UploadDir(cwdRaw, path), source, name)
        called == source.kind # "other" /\ UploadName(source, name) # <<>>
        written == ~fault /\ called
        result ==
            IF source.kind = "other"
              THEN Raise("File should either be a path or an IO type", <<>>)
            ELSE IF UploadName(source, name) = <<>>
              THEN Raise("Unable to determine remote file name", <<>>)
            ELSE IF fault THEN Raise("WebDavException", target)
            ELSE File(cwdRaw, target, resp)
    IN  /\ dav' = IF written THEN Store(dav, DavKey(target), source.data)
                  ELSE dav
        /\ Cardinality(DOMAIN dav') <= MaxStored
        /\ lastUpload' = [op |-> "upload", name |-> name, path |-> path,
              source |-> source, called |-> called, native |-> called /\ fault,
              written |-> written, target |-> target,
              exc |-> IF called /\ fault THEN Translate("WebDavException")
                      ELSE IF result.kind = "raise" THEN "StackException"
                      ELSE "",
              result |-> result]
        /\ UNCHANGED lastDownload

\* Stack.mkdir with path left to default to the working directory
Mkdir(name, fault, resp) ==
    LET target == Join(cwdRaw, name)
        result == IF fault THEN Raise("WebDavException", target)
                  ELSE Directory(cwdRaw, target, resp)
    IN  /\ lastUpload' = [op |-> "mkdir", name |-> name, called |-> TRUE,
              native |-> fault, target |-> target,
              exc |-> IF fault THEN Translate("WebDavException")
                      ELSE IF result.kind = "raise" THEN "StackException"
                      ELSE "",
              result |-> result]
        /\ UNCHANGED <<dav, lastDownload>>

\* Stack.download with remote_path left to default to the working directory;
\* fault says that the WebDAV client raised for a reason other than the
\* resource being absent.
Download(file, fault) ==
    LET key == DownloadTarget(cwdRaw, file)
        failed == fault \/ key \notin DOMAIN dav
    IN  /\ lastDownload' =
              [op |-> "download", file |-> file, called |-> TRUE,
               fault |-> fault, native |-> failed, raised |-> failed,
               exc |-> IF failed THEN Translate("WebDavException") ELSE ""]
        /\ UNCHANGED <<dav, lastUpload>>

\* Stack.download_into with remote_path left to default to the working
\* directory; fault says that the WebDAV client raised for a reason other
\* than the resource being absent.
DownloadInto(file, buffer, fault) ==
    LET key == DownloadTarget(cwdRaw, file)
        found == key \in DOMAIN dav
        used == BufferOrDefault(buffer)
        called == HasWrite(used)
        raised == ~called \/ fault \/ ~found
    IN  /\ lastDownload' =
              [op |-> "download_into", file |-> file,
               called |-> called, fault |-> fault,
               native |-> called /\ (fault \/ ~found),
               asked |-> buffer, raised |-> raised,
               exc |-> IF ~called THEN "StackException"
                       ELSE IF raised THEN Translate("WebDavException")
                       ELSE "",
               content |-> IF found THEN dav[key] ELSE <<>>,
               buffer |-> IF raised THEN BufferBefore(used)
                          ELSE BufferRewind(
                                  BufferWrite(BufferBefore(used), dav[key])),
               \* set when the last upload, into the working directory,
               \* returned normally under this name
               after |-> IF lastUpload.op = "upload"
                            /\ lastUpload.path = <<>>
                            /\ lastUpload.result.kind = "StackFile"
                            /\ UploadName(lastUpload.source, lastUpload.name)
                                  = file
                         THEN lastUpload.source.data ELSE <<>>]
        /\ UNCHANGED <<dav, lastUpload>>

TransferInit ==
    /\ dav = <<>>
    /\ lastUpload = [op |-> "none"]
    /\ lastDownload = [op |-> "none"]

InitTransfer ==
    /\ SessionInit /\ ListIdle /\ TransferInit /\ UserIdle /\ NodeIdle
    /\ OthersIdle
    /\ cwdRaw \in WorkingDirs
    /\ localLinks = {}
    /\ lastOp = [op |-> "none"]

notTransfer ==
    <<sessionVars, pathVars, listVars, userVars, nodeVars,
      httpVars, bulkVars>>

TransferNext ==
    \/ \E source \in Sources, name \in UploadNames, path \in UploadPaths,
          fault \in BOOLEAN, resp \in UploadResponses :
          Upload(source, name, path, fault, resp) /\ UNCHANGED notTransfer
    \/ \E name \in {<<"b">>}, fault \in BOOLEAN, resp \in UploadResponses :
          Mkdir(name, fault, resp) /\ UNCHANGED notTransfer
    \/ \E file \in DownloadNames, fault \in BOOLEAN :
          Download(file, fault) /\ UNCHANGED notTransfer
    \/ \E file \in DownloadNames, buffer \in Buffers, fault \in BOOLEAN :
          DownloadInto(file, buffer, fault) /\ UNCHANGED notTransfer

SpecTransfer == InitTransfer /\ [][TransferNext]_vars

\* ---------------------------------------------------------- transfer: claims

\* C10: uploading bytes under a name upload accepts and then calling
\* download_into with the same name, in the same working directory, returns a
\* buffer positioned at its start that holds the uploaded bytes.
C10_DownloadReturnsUpload ==
    (/\ lastDownload.op = "download_into"
     /\ lastDownload.after # <<>>
     /\ lastDownload.asked = "none"
     /\ ~lastDownload.fault) =>
        /\ ~lastDownload.raised
        /\ lastDownload.buffer = [data |-> lastDownload.after, pos |-> 0]

\* For a name that does not start with '/' the round trip does hold.
DownloadReturnsUploadOfRelativeName ==
    (lastDownload.op = "download_into"
        /\ ~StartsWith(lastDownload.file, <<"/">>)) =>
        C10_DownloadReturnsUpload

\* A round trip under a relative name away from the root has happened.
RelativeRoundTripHappens ==
    /\ lastDownload.op = "download_into"
    /\ lastDownload.after = <<1, 2>>
    /\ lastDownload.file = <<"a">>
    /\ cwdRaw # <<"/">>
    /\ ~lastDownload.raised


\* ================================================================== users

\* StackUser.QUOTA_INFINITE
QUOTA_INFINITE == -1

\* the shortest password create_user accepts under the password policy
MinPasswordLen == 8

\* Python's None and a present value, for optional integers
None == <<>>

Some(v) == <<v>>

\* dict.get(key, default)
Get(props, key, default) ==
    IF key \in DOMAIN props THEN props[key] ELSE default

\* dict.copy() followed by data[key] = value
Put(props, key, value) ==
    [k \in DOMAIN props \cup {key} |-> IF k = key THEN value ELSE props[k]]

\* dict.update(data)
Update(props, data) ==
    [k \in DOMAIN props \cup DOMAIN data |->
        IF k \in DOMAIN data THEN data[k] ELSE props[k]]

\* StackUser.name
Name(props) == Get(props, "displayName", "")

\* StackUser.username
Username(props) == Get(props, "username", "")

\* StackUser.disk_quota
DiskQuota(props) ==
    LET quota == Get(props, "quota", QUOTA_INFINITE)
    IN  IF quota > 0 THEN Some(quota) ELSE None

\* `int(disk_quota) if disk_quota else -1`: None and 0 are both falsy
QuotaToSend(disk_quota) ==
    IF disk_quota # None /\ disk_quota[1] # 0
      THEN disk_quota[1] ELSE QUOTA_INFINITE

\* one request sent through Stack.http
UserRequest(method, url, body) ==
    [method |-> method, url |-> url, body |-> body]

\* POST /api/users/update carrying json=[data], data being one action
UpdateRequest(action, user) ==
    UserRequest("POST", "/api/users/update",
                << [action |-> action, user |-> user] >>)

StatusOkAlways(status) == TRUE

\* resp.get("status") == "ok"
StatusOk(status) == status = "ok"

\* The JSON status the service answers an update with.
JsonStatuses == {"ok", "error"}

\* What a call leaves in lastUserOp. raised is "" when the call returned.
UserOutcome(op, args, before, sent, raised, result) ==
    [op |-> op, args |-> args, before |-> before, sent |-> sent,
     raised |-> raised, result |-> result]

\* The properties of StackUser that are defined without a setter.
ReadOnlyProperties == {"name", "username", "disk_quota"}

\* `user.<property> = value`: the property has no setter
AssignProperty(field, value) ==
    /\ lastUserOp' = UserOutcome("assign", <<field, value>>, userProps, <<>>,
                                 "AttributeError", None)
    /\ UNCHANGED <<enforce_password_policy, userProps>>

PropsAfterUpdateUnchecked(props, data, status) == Update(props, data)

\* users.py:94-95 and 114-115: the mapping takes the sent data only on "ok"
PropsAfterUpdate(props, data, status) ==
    IF StatusOk(status) THEN Update(props, data) ELSE props

\* StackUser.set_name
SetName(name, status) ==
    LET data == Put(userProps, "displayName", name)
    IN  /\ userProps' = PropsAfterUpdate(userProps, data, status)
        /\ lastUserOp' = UserOutcome("set_name", <<name, status>>, userProps,
              <<UpdateRequest("update", data)>>,
              IF StatusOk(status) THEN "" ELSE "StackException", None)
        /\ UNCHANGED enforce_password_policy

\* StackUser.set_disk_quota
SetDiskQuota(disk_quota, status) ==
    LET data == Put(userProps, "quota", QuotaToSend(disk_quota))
    IN  /\ userProps' = PropsAfterUpdate(userProps, data, status)
        /\ lastUserOp' = UserOutcome("set_disk_quota", <<disk_quota, status>>,
              userProps, <<UpdateRequest("update", data)>>,
              IF StatusOk(status) THEN "" ELSE "StackException", None)
        /\ UNCHANGED enforce_password_policy

\* StackUser.set_password
SetPassword(password, status) ==
    LET data == Put(userProps, "password", password)
    IN  /\ lastUserOp' = UserOutcome("set_password", <<password, status>>, userProps,
              <<UpdateRequest("update", data)>>,
              IF StatusOk(status) THEN "" ELSE "StackException", None)
        /\ UNCHANGED <<enforce_password_policy, userProps>>

\* StackUser.delete
Delete(status) ==
    /\ lastUserOp' = UserOutcome("delete", <<status>>, userProps,
          <<UpdateRequest("delete", userProps)>>,
          IF StatusOk(status) THEN "" ELSE "StackException", None)
    /\ UNCHANGED <<enforce_password_policy, userProps>>

\* StackUser.save: one update action carrying the whole mapping
Save(status) ==
    /\ lastUserOp' = UserOutcome("save", <<status>>, userProps,
          <<UpdateRequest("update", userProps)>>,
          IF StatusOk(status) THEN "" ELSE "StackException", None)
    /\ UNCHANGED <<enforce_password_policy, userProps>>

\* GET /api/users with limit 1 and the name as query
LookupRequest(name) ==
    UserRequest("GET", "/api/users",
                [public |-> FALSE, offset |-> 0, limit |-> 1, query |-> name])

\* What the service holds for a user name.
ServiceUser(username, quota) ==
    [username |-> username, displayName |-> "Example", quota |-> quota]

\* The answers to GET /api/users: access denied, nobody found, one user.
LookupResponses ==
    { [status |-> 403, users |-> <<>>],
      [status |-> 200, users |-> <<>>],
      [status |-> 200, users |-> <<ServiceUser("example", QUOTA_INFINITE)>>] }

\* Stack.user: the requests it sends and how it ends
UserCall(name, resp) ==
    IF resp.status = 403
      THEN [sent |-> <<LookupRequest(name)>>, raised |-> "StackException",
            why |-> "access denied", result |-> None]
    ELSE IF resp.users = <<>>
      THEN [sent |-> <<LookupRequest(name)>>, raised |-> "StackException",
            why |-> "Unable to find user", result |-> None]
    ELSE [sent |-> <<LookupRequest(name)>>, raised |-> "", why |-> "",
          result |-> Some(resp.users[1])]

PolicyRejectsIgnoringFlag(policy, password) == Len(password) < MinPasswordLen

\* stack.py:439-441
PolicyRejects(policy, password) ==
    policy /\ Len(password) < MinPasswordLen

\* the user of the create action
NewUser(name, username, password, disk_quota) ==
    [username |-> username, newUser |-> TRUE, isPublic |-> FALSE,
     password |-> password, displayName |-> name,
     quota |-> QuotaToSend(disk_quota)]

\* The answers to the create request: its HTTP status and its JSON status.
CreateResponses ==
    { [status |-> 409, json |-> "error"],
      [status |-> 200, json |-> "error"],
      [status |-> 200, json |-> "ok"] }

\* Stack.create_user: the requests it sends and how it ends
CreateUserCall(policy, name, username, password, disk_quota, created, found) ==
    LET post == UpdateRequest("create",
                    NewUser(name, username, password, disk_quota))
    IN  IF PolicyRejects(policy, password)
          THEN [sent |-> <<>>, raised |-> "StackException",
                why |-> "Password must be at least 8 characters long!",
                result |-> None]
        ELSE IF created.status = 409
          THEN [sent |-> <<post>>, raised |-> "StackException",
                why |-> "Unable to create user", result |-> None]
        ELSE IF created.json # "ok"
          THEN [sent |-> <<post>>, raised |-> "StackException",
                why |-> "Expected 'ok' status", result |-> None]
        ELSE LET lookup == UserCall(username, found)
             IN  [lookup EXCEPT !.sent = <<post>> \o lookup.sent]

\* stack.py:472-476: `except StackException` around the lookup
CreatesAfter(lookup) == lookup.raised = "StackException"

\* Stack.user_or_create_new: the requests it sends and how it ends
UserOrCreateNewCall(policy, name, username, password, quota, first, created, found) ==
    LET lookup == UserCall(username, first)
    IN  IF CreatesAfter(lookup)
          THEN LET create == CreateUserCall(policy, name, username, password,
                                            quota, created, found)
               IN  [create EXCEPT !.sent = lookup.sent \o create.sent]
          ELSE lookup

\* The passwords handed to create_user: one character short of the policy,
\* and one within it.
Passwords ==
    { [i \in 1..n |-> "x"] : n \in {MinPasswordLen - 1, MinPasswordLen} }

\* The quotas handed to create_user and set_disk_quota.
QuotaArgs == { None, Some(0), Some(5) }

\* The display names handed to set_name.
DisplayNames == { "Example", "Foo" }

\* `stack.enforce_password_policy = flag`
SetPolicy(flag) ==
    /\ enforce_password_policy' = flag
    /\ UNCHANGED <<userProps, lastUserOp>>

\* Stack.user, called by the user
CallUser(name, resp) ==
    LET call == UserCall(name, resp)
    IN  /\ lastUserOp' = UserOutcome("user", <<name, resp>>, userProps,
                                     call.sent, call.raised, call.result)
        /\ UNCHANGED <<enforce_password_policy, userProps>>

\* Stack.create_user, called by the user
CreateUser(password, disk_quota, created, found) ==
    LET call == CreateUserCall(enforce_password_policy, "Example", "example",
                               password, disk_quota, created, found)
    IN  /\ lastUserOp' = UserOutcome("create_user",
              [policy |-> enforce_password_policy, password |-> password,
               disk_quota |-> disk_quota, created |-> created,
               found |-> found],
              userProps, call.sent, call.raised, call.result)
        /\ UNCHANGED <<enforce_password_policy, userProps>>

\* Stack.user_or_create_new, called by the user
UserOrCreateNew(password, disk_quota, first, created, found) ==
    LET call == UserOrCreateNewCall(enforce_password_policy, "Example",
                    "example", password, disk_quota, first, created, found)
    IN  /\ lastUserOp' = UserOutcome("user_or_create_new",
              [policy |-> enforce_password_policy, password |-> password,
               disk_quota |-> disk_quota, first |-> first,
               created |-> created, found |-> found],
              userProps, call.sent, call.raised, call.result)
        /\ UNCHANGED <<enforce_password_policy, userProps>>

\* The property mappings the service hands out for the user in hand: the
\* quota is unlimited, zero, positive, or left out.
InitialUsers ==
    { ServiceUser("example", q) : q \in {QUOTA_INFINITE, 0, 5} }
        \cup { [username |-> "example", displayName |-> "Example"] }

UserInit ==
    /\ enforce_password_policy = FALSE
    /\ userProps \in InitialUsers
    /\ lastUserOp = [op |-> "none"]

InitUser ==
    /\ SessionInit /\ PathIdle /\ TransferIdle /\ ListIdle /\ UserInit /\ NodeIdle
    /\ OthersIdle

notUser ==
    <<sessionVars, pathVars, transferVars, listVars, nodeVars,
      httpVars, bulkVars>>

UserNext ==
    \/ \E field \in ReadOnlyProperties, value \in DisplayNames :
          AssignProperty(field, value) /\ UNCHANGED notUser
    \/ \E name \in DisplayNames, status \in JsonStatuses :
          SetName(name, status) /\ UNCHANGED notUser
    \/ \E disk_quota \in QuotaArgs, status \in JsonStatuses :
          SetDiskQuota(disk_quota, status) /\ UNCHANGED notUser
    \/ \E password \in Passwords, status \in JsonStatuses :
          SetPassword(password, status) /\ UNCHANGED notUser
    \/ \E status \in JsonStatuses : Delete(status) /\ UNCHANGED notUser
    \/ \E status \in JsonStatuses : Save(status) /\ UNCHANGED notUser
    \/ \E flag \in BOOLEAN : SetPolicy(flag) /\ UNCHANGED notUser
    \/ \E name \in {"example"}, resp \in LookupResponses :
          CallUser(name, resp) /\ UNCHANGED notUser
    \/ \E password \in Passwords, disk_quota \in QuotaArgs,
          created \in CreateResponses, found \in LookupResponses :
          CreateUser(password, disk_quota, created, found)
              /\ UNCHANGED notUser
    \/ \E password \in Passwords, disk_quota \in QuotaArgs,
          first \in LookupResponses, created \in CreateResponses,
          found \in LookupResponses :
          UserOrCreateNew(password, disk_quota, first, created, found)
              /\ UNCHANGED notUser

SpecUser == InitUser /\ [][UserNext]_vars


\* ----------------------------------------------------------- users: claims

\* the value a setter call was given, as the matching property reads it back
StagedValueReadable ==
    LET args == lastUserOp.args
    IN  CASE lastUserOp.op = "set_name" -> Name(userProps) = args[1]
          [] lastUserOp.op = "set_disk_quota" -> DiskQuota(userProps) = args[1]
          [] lastUserOp.op = "assign" /\ args[1] = "name" ->
                Name(userProps) = args[2]
          [] lastUserOp.op = "assign" /\ args[1] = "username" ->
                Username(userProps) = args[2]
          [] OTHER -> FALSE

\* C11: every setter of a user changes only the local property mapping: it
\* sends no request, returns, and the value is readable afterwards.
C11_SettersAreLocal ==
    lastUserOp.op \in {"set_name", "set_disk_quota", "assign"} =>
        /\ lastUserOp.sent = <<>>
        /\ lastUserOp.raised = ""
        /\ StagedValueReadable

DiskQuotaOnlySentinel(props) ==
    LET quota == Get(props, "quota", QUOTA_INFINITE)
    IN  IF quota # QUOTA_INFINITE THEN Some(quota) ELSE None

\* C15: disk_quota is None exactly when the stored quota is -1 or missing and
\* equals the stored value otherwise; create_user sends quota -1 exactly when
\* no quota was requested.
C15_QuotaSentinel ==
    /\ DiskQuota(userProps) = DiskQuotaOnlySentinel(userProps)
    /\ (lastUserOp.op = "create_user" /\ lastUserOp.sent # <<>>) =>
          ((lastUserOp.sent[1].body[1].user.quota = QUOTA_INFINITE)
              <=> (lastUserOp.args.disk_quota = None))

\* the POST requests among those a call sent
CreationRequests(sent) ==
    { i \in 1..Len(sent) : sent[i].method = "POST" }

\* C16: create_user under the password policy with a password shorter than 8
\* raises before any request; otherwise it sends exactly one creation
\* request, raises on HTTP 409 and on a JSON status other than "ok", and
\* sends the follow-up lookup only after "ok".
C16_CreateUserProtocol ==
    lastUserOp.op = "create_user" =>
        LET a == lastUserOp.args
            sent == lastUserOp.sent
            created == a.created.status # 409 /\ a.created.json = "ok"
        IN  IF a.policy /\ Len(a.password) < MinPasswordLen
              THEN lastUserOp.raised = "StackException" /\ sent = <<>>
              ELSE /\ Len(sent) >= 1
                   /\ CreationRequests(sent) = {1}
                   /\ sent[1].url = "/api/users/update"
                   /\ sent[1].body[1].action = "create"
                   /\ ~created =>
                         lastUserOp.raised = "StackException" /\ Len(sent) = 1
                   /\ created =>
                         /\ Len(sent) = 2
                         /\ sent[2] = LookupRequest("example")

\* policy on: a short password was rejected unsent
C16_Witness ==
    /\ lastUserOp.op = "create_user"
    /\ lastUserOp.args.policy
    /\ Len(lastUserOp.args.password) < MinPasswordLen
    /\ lastUserOp.sent = <<>>

\* policy on: a long enough password was sent, created and looked up
C16_WitnessCreated ==
    /\ lastUserOp.op = "create_user"
    /\ lastUserOp.args.policy
    /\ Len(lastUserOp.sent) = 2
    /\ lastUserOp.raised = ""

\* C17: user_or_create_new returns the found user without a creation request;
\* it sends a creation request only when the lookup found nobody, never when
\* the lookup failed for another reason (403).
C17_CreatesOnlyWhenNotFound ==
    lastUserOp.op = "user_or_create_new" =>
        LET first == lastUserOp.args.first
            creates == CreationRequests(lastUserOp.sent) # {}
        IN  /\ (first.status = 200 /\ first.users # <<>>) =>
                  /\ ~creates
                  /\ lastUserOp.raised = ""
                  /\ lastUserOp.result = Some(first.users[1])
            /\ creates => (first.status = 200 /\ first.users = <<>>)

\* without the lookup answered 403, the claim holds
CreatesOnlyWhenNotFoundUnlessDenied ==
    (lastUserOp.op = "user_or_create_new"
        /\ lastUserOp.args.first.status # 403) => C17_CreatesOnlyWhenNotFound


\* ================================================================== nodes

\* Longest node path (in characters) the node model explores.
MaxNodePathLen == 6

RECURSIVE LStripChars(_, _)
\* str.lstrip(chars): every leading character that is in chars removed
LStripChars(s, chars) ==
    IF s # <<>> /\ s[1] \in chars THEN LStripChars(Tail(s), chars) ELSE s

\* p.rfind("/") + 1
LastSep(p) ==
    IF \E i \in 1..Len(p) : p[i] = "/"
      THEN CHOOSE i \in 1..Len(p) :
              p[i] = "/" /\ \A j \in (i + 1)..Len(p) : p[j] # "/"
      ELSE 0

\* posixpath.basename
Basename(p) == SubSeq(p, LastSep(p) + 1, Len(p))

\* posixpath.dirname
Dirname(p) ==
    LET head == SubSeq(p, 1, LastSep(p))
    IN  IF head # <<>> /\ RStrip(head, "/") # <<>>
          THEN RStrip(head, "/") ELSE head

\* StackNode.path
PathOf(props) == Get(props, "path", <<>>)

\* StackNode.name
NameOf(props) == Basename(PathOf(props))

\* StackDirectory.directory and StackFile.directory
DirectoryOf(class, props) ==
    IF class = "StackDirectory"
      THEN RStrip(PathOf(props), "/") \o <<"/">>
      ELSE RStrip(Dirname(PathOf(props)), "/") \o <<"/">>

\* StackNode.is_shared: any() over the characters of the token
IsShared(props) == Get(props, "shareToken", <<>>) # <<>>

\* StackNode.has_share_password
HasSharePassword(props) ==
    IF IsShared(props) THEN Get(props, "hasSharePassword", FALSE) ELSE FALSE

ShareTokenUngated(props) == Some(Get(props, "shareToken", <<>>))

\* StackNode.share_token
ShareToken(props) ==
    IF IsShared(props) THEN Some(Get(props, "shareToken", <<>>)) ELSE None

\* StackHTTP.base_url
BaseUrl == <<"h">>

\* StackNode.share_url: "{}/s/{}".format(base_url, share_token)
ShareUrl(props) ==
    IF IsShared(props)
      THEN Some(BaseUrl \o <<"/", "s", "/">> \o ShareToken(props)[1])
      ELSE None

\* What a call leaves in lastNodeOp. raised is "" when the call returned.
NodeOutcome(op, args, before, target, raised, result) ==
    [op |-> op, args |-> args, before |-> before, target |-> target,
     raised |-> raised, result |-> result]

\* nodes.py:161-167: the path move hands to the transfer channel
MoveTarget(links, class, props, dest) ==
    LET path == IF EndsWith(dest, <<"/">>)
                  THEN Join(dest, NameOf(props)) ELSE dest
    IN  IF StartsWith(path, <<".", ".", "/">>)
          THEN RealPath(links, Join(DirectoryOf(class, props), path))
        ELSE IF ~StartsWith(path, <<"/">>) \/ StartsWith(path, <<".", "/">>)
          THEN Join(DirectoryOf(class, props),
                    LStripChars(path, {".", "/"}))
        ELSE path

\* The answers to GET /api/pathinfo for a path: the node's properties, or
\* an error body with a status other than 200.
PathInfoResponses(path, props) ==
    { [status |-> 200,
       json |-> [path |-> path, mimetype |-> props.mimetype]],
      [status |-> 404, json |-> [status |-> "error"]] }

\* StackNode.refresh: the properties after the response is merged
Refreshed(props, resp) == Update(props, resp.json)

\* nodes.py:169-175: what move raises when the channel does
MoveRaises(fault) == IF fault THEN Translate("WebDavException") ELSE ""

\* StackNode.move
Move(dest, fault, status) ==
    LET target == MoveTarget(localLinks, nodeClass, nodeProps, dest)
        moved == Put(nodeProps, "path", target)
    IN  /\ Len(target) <= MaxNodePathLen
        /\ \E resp \in PathInfoResponses(target, nodeProps) :
              /\ resp.status = status
              /\ nodeProps' = IF fault THEN nodeProps
                              ELSE Refreshed(moved, resp)
        /\ lastNodeOp' = NodeOutcome("move", <<dest, fault, status>>,
              nodeProps, target, MoveRaises(fault), None)
        /\ UNCHANGED nodeClass

\* StackNode.refresh, called by the user
Refresh(status) ==
    /\ \E resp \in PathInfoResponses(PathOf(nodeProps), nodeProps) :
          /\ resp.status = status
          /\ nodeProps' = Refreshed(nodeProps, resp)
    /\ lastNodeOp' = NodeOutcome("refresh", <<status>>, nodeProps,
                                 PathOf(nodeProps), "", None)
    /\ UNCHANGED nodeClass

\* The first element of the service's answer to a share action: the node
\* with a token, password-protected when a password was sent.
ShareResponses(props, password) ==
    { [path |-> PathOf(props), shareToken |-> <<"t">>,
       hasSharePassword |-> password # None] }

\* The first element of the service's answer to an unshare action: the node
\* with an empty token; the password flag may still be set.
UnshareResponses(props) ==
    { [path |-> PathOf(props), shareToken |-> <<>>, hasSharePassword |-> b]
        : b \in BOOLEAN }

\* StackNode.share
Share(password, resp) ==
    /\ nodeProps' = Update(nodeProps, resp)
    /\ lastNodeOp' = NodeOutcome("share", <<password>>, nodeProps,
          PathOf(nodeProps), "", ShareUrl(Update(nodeProps, resp)))
    /\ UNCHANGED nodeClass

\* StackNode.unshare
Unshare(resp) ==
    /\ nodeProps' = Update(nodeProps, resp)
    /\ lastNodeOp' = NodeOutcome("unshare", <<>>, nodeProps,
                                 PathOf(nodeProps), "", None)
    /\ UNCHANGED nodeClass

\* The destinations handed to move.
MoveArgs ==
    { <<".", ".", "/">>, <<"b", "/">>, <<".", "b", "/">>, <<"/", "b", "/">>,
      <<"/", "b">>, <<".", "/", "b">>, <<"b">>, <<".", "b">>,
      <<".", ".", "/", "b">> }

\* The nodes a lookup hands out: a file in a directory, a file in a
\* directory that is a link on the local host, and a directory.
InitialNodes ==
    { [class |-> "StackFile", path |-> <<"/", "a", "/", "b">>],
      [class |-> "StackFile", path |-> <<"/", "b", "/", "a">>],
      [class |-> "StackDirectory", path |-> <<"/", "a">>] }

NodeInit ==
    \E n \in InitialNodes :
        /\ nodeClass = n.class
        /\ nodeProps = [path |-> n.path,
                        mimetype |-> IF n.class = "StackDirectory"
                                       THEN DirMime ELSE TextMime,
                        shareToken |-> <<>>, hasSharePassword |-> FALSE]
        /\ lastNodeOp = [op |-> "none"]

InitNode ==
    /\ SessionInit /\ TransferIdle /\ ListIdle /\ UserIdle /\ NodeInit
    /\ OthersIdle
    /\ cwdRaw = <<"/">>
    /\ localLinks \in LocalLinkSets
    /\ lastOp = [op |-> "none"]

notNode ==
    <<sessionVars, pathVars, transferVars, listVars, userVars,
      httpVars, bulkVars>>

NodeNext ==
    \/ \E dest \in MoveArgs, fault \in BOOLEAN, status \in {200, 404} :
          Move(dest, fault, status) /\ UNCHANGED notNode
    \/ \E status \in {200, 404} : Refresh(status) /\ UNCHANGED notNode
    \/ \E password \in {None, Some("secret")} :
          \E resp \in ShareResponses(nodeProps, password) :
              Share(password, resp) /\ UNCHANGED notNode
    \/ \E resp \in UnshareResponses(nodeProps) :
          Unshare(resp) /\ UNCHANGED notNode

SpecNode == InitNode /\ [][NodeNext]_vars


\* ----------------------------------------------------------- nodes: claims

\* the directory a relative destination is taken from
MovedFrom == DirectoryOf(nodeClass, lastNodeOp.before)

\* the target the claim gives a destination ending in "/": the destination
\* with the node's name appended, ".." collapsed lexically
ExpectedMoveTarget(dest) ==
    LET named == dest \o NameOf(lastNodeOp.before)
    IN  IF StartsWith(dest, <<"/">>) THEN named
        ELSE NormPath(Join(MovedFrom, named))

\* C13: move with "../" targets the parent's parent directory plus the name
\* (/a/b/c.txt -> /a/c.txt); a destination ending in "/" gets the node's name
\* appended; an absolute destination not ending in "/" is used verbatim; after
\* a successful move path, name and directory reflect the target.
C13_MoveTargets ==
    lastNodeOp.op = "move" =>
        LET dest == lastNodeOp.args[1]
            target == lastNodeOp.target
        IN  /\ EndsWith(dest, <<"/">>) => target = ExpectedMoveTarget(dest)
            /\ (StartsWith(dest, <<"/">>) /\ ~EndsWith(dest, <<"/">>)) =>
                  target = dest
            /\ lastNodeOp.raised = "" =>
                  /\ PathOf(nodeProps) = target
                  /\ NameOf(nodeProps) = Basename(target)
                  /\ nodeClass = "StackFile" =>
                        DirectoryOf(nodeClass, nodeProps) =
                            RStrip(Dirname(target), "/") \o <<"/">>

\* the claim holds where no local link is on the way of a "../" destination
\* and the destination does not start with the dot of a name
MoveTargetsWithoutLinksOrDots ==
    (/\ lastNodeOp.op = "move"
     /\ localLinks = {} \/ ~StartsWith(lastNodeOp.args[1], <<".", ".", "/">>)
     /\ lastNodeOp.args[1] # <<".", "b", "/">>) => C13_MoveTargets

C14_WitnessShared ==
    /\ lastNodeOp.op = "share"
    /\ lastNodeOp.result # None


\* ------------------------------------------------- transfer: further claims

\* C19: download_into with a destination that has no write raises
\* StackException before any call of the transfer channel; with no
\* destination it downloads into a fresh in-memory buffer; on success the
\* returned buffer is positioned at its start.
C19_DownloadIntoChecksBuffer ==
    lastDownload.op = "download_into" =>
        /\ lastDownload.asked \in {"str", "emptystr"} =>
              /\ lastDownload.exc = "StackException"
              /\ ~lastDownload.called
        /\ (lastDownload.asked = "none" /\ lastDownload.exc = "") =>
              lastDownload.buffer.data = lastDownload.content
        /\ lastDownload.exc = "" => lastDownload.buffer.pos = 0

\* for every destination but the empty string the claim holds
DownloadIntoChecksNonEmptyBuffer ==
    (lastDownload.op = "download_into" /\ lastDownload.asked # "emptystr")
        => C19_DownloadIntoChecksBuffer

\* C20: upload writes to the target directory joined with the explicit name,
\* or else with the source's own name; without a name, or with a source that
\* is neither readable nor a path, it raises StackException before any write
\* through the transfer channel; a successful upload returns the StackFile of
\* a fresh lookup of the written path.
C20_UploadNamesAndLooksUp ==
    lastUpload.op = "upload" =>
        LET source == lastUpload.source
            name == IF lastUpload.name # <<>> THEN lastUpload.name
                    ELSE source.name
            dir == IF lastUpload.path # <<>> THEN lastUpload.path ELSE cwdRaw
        IN  /\ (source.kind = "other" \/ name = <<>>) =>
                  /\ lastUpload.exc = "StackException"
                  /\ ~lastUpload.called
                  /\ ~lastUpload.written
            /\ lastUpload.called => lastUpload.target = Join(dir, name)
            /\ lastUpload.written =>
                  /\ DavKey(lastUpload.target) \in DOMAIN dav
                  /\ dav[DavKey(lastUpload.target)] = source.data
            /\ lastUpload.exc = "" =>
                  /\ lastUpload.written
                  /\ lastUpload.result.kind = "StackFile"
                  /\ DavKey(lastUpload.result.path) = DavKey(lastUpload.target)

\* into the working directory or an absolute directory the claim holds
UploadNamesAndLooksUpAbsolute ==
    (lastUpload.op = "upload"
        /\ (lastUpload.path = <<>> \/ StartsWith(lastUpload.path, <<"/">>)))
        => C20_UploadNamesAndLooksUp


\* ===================================================== the transfer channel

\* The five operations that go through the WebDAV client, side by side: a
\* session in the directory /a that uploads a named source, makes a directory,
\* downloads, and moves a node it holds.
InitChannel ==
    /\ SessionInit /\ ListIdle /\ TransferInit /\ UserIdle /\ NodeInit
    /\ OthersIdle
    /\ cwdRaw = <<"/", "a">>
    /\ localLinks = {}
    /\ lastOp = [op |-> "none"]

ChannelNext ==
    \/ \E source \in { s \in Sources : s.kind = "io" /\ s.name # <<>> },
          fault \in BOOLEAN, resp \in UploadResponses :
          Upload(source, <<>>, <<>>, fault, resp) /\ UNCHANGED notTransfer
    \/ \E name \in {<<"b">>}, fault \in BOOLEAN, resp \in UploadResponses :
          Mkdir(name, fault, resp) /\ UNCHANGED notTransfer
    \/ \E fault \in BOOLEAN :
          Download(<<"b">>, fault) /\ UNCHANGED notTransfer
    \/ \E buffer \in Buffers, fault \in BOOLEAN :
          DownloadInto(<<"b">>, buffer, fault) /\ UNCHANGED notTransfer
    \/ \E fault \in BOOLEAN :
          Move(<<"/", "b">>, fault, 200) /\ UNCHANGED notNode

SpecChannel == InitChannel /\ [][ChannelNext]_vars

\* C18: whenever the WebDAV client raises during upload, mkdir, download,
\* download_into or a node's move, the caller gets StackException: the
\* operation neither returns nor lets WebDavException through.
C18_ChannelErrorsTranslated ==
    /\ (lastUpload.op \in {"upload", "mkdir"} /\ lastUpload.native) =>
          /\ lastUpload.exc = "StackException"
          /\ lastUpload.result.kind = "raise"
    /\ (lastDownload.op \in {"download", "download_into"}
            /\ lastDownload.native) =>
          /\ lastDownload.exc = "StackException"
          /\ lastDownload.raised
    /\ (lastNodeOp.op = "move" /\ lastNodeOp.args[2]) =>
          /\ lastNodeOp.raised = "StackException"
          /\ nodeProps = lastNodeOp.before

\* an mkdir, a download of a stored file and a move, each with the WebDAV
\* client raising
C18_Witness ==
    /\ lastUpload.op = "mkdir" /\ lastUpload.native
    /\ lastDownload.op = "download" /\ lastDownload.fault
    /\ <<"a", "/", "b">> \in DOMAIN dav
    /\ lastNodeOp.op = "move" /\ lastNodeOp.args[2]


\* ------------------------------------------------- nodes: further claims

\* the parent directory of a path, with its trailing separator
ParentOf(path) == RStrip(Dirname(path), "/") \o <<"/">>

\* a move whose destination is relative, does not start with "../" and does
\* not end with "/"
PlainRelativeMove ==
    /\ lastNodeOp.op = "move"
    /\ ~StartsWith(lastNodeOp.args[1], <<"/">>)
    /\ ~StartsWith(lastNodeOp.args[1], <<".", ".", "/">>)
    /\ ~EndsWith(lastNodeOp.args[1], <<"/">>)

\* C22: for a file or a directory, and a relative destination that neither
\* starts with "../" nor ends with "/", move targets the node's parent
\* directory joined with the destination, every character of the destination
\* name kept (a leading "." too).
C22_RelativeMoveKeepsName ==
    PlainRelativeMove =>
        lastNodeOp.target =
            NormPath(Join(ParentOf(PathOf(lastNodeOp.before)),
                          lastNodeOp.args[1]))

\* for a file and a destination name without a leading dot the claim holds
RelativeMoveOfFileWithoutDot ==
    (PlainRelativeMove /\ nodeClass = "StackFile"
        /\ lastNodeOp.args[1] # <<".", "b">>) => C22_RelativeMoveKeepsName

\* C24: when /api/pathinfo answers a refresh, called directly or as the last
\* step of move, with a status other than 200, the caller gets StackException
\* and the body of the answer is not merged into the node's properties.
C24_RefreshFailureSurfaces ==
    /\ (lastNodeOp.op = "refresh" /\ lastNodeOp.args[1] # 200) =>
          /\ lastNodeOp.raised = "StackException"
          /\ nodeProps = lastNodeOp.before
    /\ (lastNodeOp.op = "move" /\ ~lastNodeOp.args[2]
            /\ lastNodeOp.args[3] # 200) =>
          /\ lastNodeOp.raised = "StackException"
          /\ "status" \in DOMAIN nodeProps
                => "status" \in DOMAIN lastNodeOp.before

\* ------------------------------------------------- users: further claims

\* the user calls that submit one action
SubmittingCalls == {"delete", "set_password", "set_disk_quota", "set_name"}

\* C23: delete, set_password, set_disk_quota and set_name raise
\* StackException when the answer's status is not "ok", and then leave the
\* local mapping as it was; the mapping changes only after an "ok".
C23_FailedCallKeepsMapping ==
    lastUserOp.op \in SubmittingCalls =>
        LET status == lastUserOp.args[Len(lastUserOp.args)]
        IN  /\ Len(lastUserOp.sent) = 1
            /\ status # "ok" =>
                  /\ lastUserOp.raised = "StackException"
                  /\ userProps = lastUserOp.before
            /\ status = "ok" => lastUserOp.raised = ""
            /\ userProps # lastUserOp.before => status = "ok"

\* a set_name with a new name, answered with an error
C23_Witness ==
    /\ lastUserOp.op = "set_name"
    /\ lastUserOp.args = <<"Foo", "error">>
    /\ Name(lastUserOp.before) = "Example"
    /\ Name(userProps) = "Example"
    /\ lastUserOp.raised = "StackException"


\* ================================================================ transport
\* StackHTTP (http.py): every request of the library goes through
\* StackHTTP.request, which adds the anti-forgery token unless the caller
\* passes csrf=False.  The token is the csrf_token property, an lru_cache
\* around a GET of the /files page.

\* Most requests on the wire of the transport model.
MaxWire == 4

\* What the /files page holds in its csrf-token meta tag when it is fetched.
\* None stands for a fetch that yields no token: the page lacks the tag (find
\* returns None and .attrs raises AttributeError) or the GET itself raises.
PageTokens == { None, Some("t1"), Some("t2") }

\* The calls the library makes through the transport: login and logout pass
\* csrf=False (stack.py:76, 91), webdav() passes csrf=False (http.py:56), the
\* API calls leave the default.
HttpCalls ==
    { [url |-> "/login", csrf |-> FALSE],
      [url |-> "/logout", csrf |-> FALSE],
      [url |-> "/remote.php/webdav", csrf |-> FALSE],
      [url |-> "/api/files", csrf |-> TRUE] }

\* http.py:69: the token page is fetched with csrf=False.
TokenFetch(page) ==
    [url |-> "/files", csrf |-> FALSE, token |-> None, page |-> page]

Sent(call, token) ==
    [url |-> call.url, csrf |-> call.csrf, token |-> token, page |-> None]

\* http.py:66-71: the value the csrf_token property returns: the cached one,
\* or else the content of the meta tag of the page just fetched.
CsrfToken(cache, page) == IF cache # None THEN cache ELSE page

CachedNever(cache, page) == None

\* http.py:67: lru_cache keeps what the property returned; a call that
\* raised leaves the cache as it was.
Cached(cache, page) == CsrfToken(cache, page)

\* http.py:21-38, StackHTTP.request.
HttpRequest(call, page) ==
    LET fetches == call.csrf /\ csrfCache = None
        token   == IF call.csrf THEN CsrfToken(csrfCache, page) ELSE None
        failed  == call.csrf /\ token = None
        sent    == (IF fetches THEN <<TokenFetch(page)>> ELSE <<>>)
                   \o (IF failed THEN <<>> ELSE <<Sent(call, token)>>)
    IN  /\ Len(wire) + Len(sent) <= MaxWire
        /\ wire' = wire \o sent
        /\ csrfCache' = IF call.csrf THEN Cached(csrfCache, page)
                        ELSE csrfCache
        /\ lastHttp' = [op |-> "request", call |-> call, fetched |-> fetches,
                        before |-> Len(wire),
                        raised |-> IF failed THEN "Exception" ELSE ""]

HttpInit ==
    /\ csrfCache = None
    /\ wire = <<>>
    /\ lastHttp = [op |-> "none"]

InitHttp ==
    /\ SessionInit /\ PathIdle /\ TransferIdle /\ ListIdle /\ UserIdle /\ NodeIdle
    /\ HttpInit /\ BulkIdle

notHttp ==
    <<sessionVars, pathVars, transferVars, listVars, userVars, nodeVars,
      bulkVars>>

HttpNext ==
    \E call \in HttpCalls, page \in PageTokens :
        HttpRequest(call, page) /\ UNCHANGED notHttp

SpecHttp == InitHttp /\ [][HttpNext]_vars

\* ------------------------------------------------------- transport: claims

TokenFetches == { i \in 1..Len(wire) : wire[i].url = "/files" }

\* What holds of the wire whether or not a fetch can fail: the fetch carries
\* no token, a fetch that yields a token is followed by the request that
\* caused it, every request that does not opt out carries the token of an
\* earlier fetch and all of them the same one, and a request that opts out
\* carries none and causes no fetch.
TokenDiscipline ==
    /\ \A i \in TokenFetches :
          /\ wire[i].token = None
          /\ wire[i].page # None => i < Len(wire) /\ wire[i + 1].csrf
    /\ \A i \in 1..Len(wire) :
          /\ wire[i].csrf =>
                /\ wire[i].token # None
                /\ \E j \in TokenFetches : j < i /\ wire[j].page = wire[i].token
          /\ ~wire[i].csrf => wire[i].token = None
    /\ \A i, j \in 1..Len(wire) :
          wire[i].csrf /\ wire[j].csrf => wire[i].token = wire[j].token
    /\ lastHttp.op = "request" /\ ~lastHttp.call.csrf =>
          /\ ~lastHttp.fetched
          /\ Len(wire) = lastHttp.before + 1
          /\ wire[Len(wire)].token = None

\* C21: over any sequence of requests through one transport the token page
\* is fetched at most once, on the first request that does not opt out; every
\* later such request carries that token; requests that opt out neither carry
\* the token nor cause it to be fetched.
C21_TokenFetchedOnce ==
    /\ Cardinality(TokenFetches) <= 1
    /\ TokenDiscipline

\* C21, amended: the token page is fetched by each request that does not opt
\* out until one fetch yields a token, and never after that; the rest of the
\* discipline is as claimed.
TokenFetchedUntilFound ==
    /\ \A i, j \in TokenFetches : i < j => wire[i].page = None
    /\ csrfCache # None => \E i \in TokenFetches : wire[i].page = csrfCache
    /\ lastHttp.op = "request" /\ lastHttp.fetched =>
          lastHttp.call.csrf /\ wire[lastHttp.before + 1].url = "/files"
    /\ TokenDiscipline

\* A fetch that yielded nothing, the fetch that yielded the token, and two
\* requests carrying it with no further fetch.
C21_Witness ==
    /\ Len(wire) = 4
    /\ wire[1].url = "/files" /\ wire[1].page = None
    /\ wire[2].url = "/files" /\ wire[2].page # None
    /\ wire[3].token = wire[2].page
    /\ wire[4].token = wire[2].page

\* ============================================================== bulk upload
\* The command line's `upload` (__main__.py): a single file is uploaded on
\* the main thread; for a directory the main thread first creates every
\* directory of the tree in a loop, then hands the files to a ThreadPool.

\* Worker threads of the pool (args.threads).
NumWorkers == 2

\* The local trees given to `upload`: arg is args.file_or_directory, dirs
\* the directory paths os.walk(arg) yields and files its (directory, file
\* name) pairs in the order it yields them.
BulkArgs ==
    { [arg |-> <<"f">>, isfile |-> TRUE, dirs |-> {}, files |-> <<>>],
      [arg |-> <<"d">>, isfile |-> FALSE,
       dirs |-> { <<"d">> },
       files |-> << <<<<"d">>, <<"f">>>> >>],
      [arg |-> <<"d">>, isfile |-> FALSE,
       dirs |-> { <<"d">>, <<"d", "/", "a">>, <<"d", "/", "a", "/", "b">> },
       files |-> << <<<<"d">>, <<"f">>>>,
                    <<<<"d", "/", "a", "/", "b">>, <<"g">>>> >>],
      [arg |-> <<"a">>, isfile |-> FALSE,
       dirs |-> { <<"a">>, <<"a", "/", "b">>, <<"a", "/", "a">>,
                  <<"a", "/", "a", "/", "a">> },
       files |-> << <<<<"a", "/", "b">>, <<"f">>>>,
                    <<<<"a", "/", "a">>, <<"f">>>>,
                    <<<<"a", "/", "a", "/", "a">>, <<"f">>>> >>],
      [arg |-> <<".">>, isfile |-> FALSE,
       dirs |-> { <<".">>, <<".", "/", "a">>, <<".", "/", "a", "-", "b">>,
                  <<".", "/", "a", "/", "b">> },
       files |-> << <<<<".", "/", "a", "/", "b">>, <<"f">>>> >>] }

\* str.replace(old, '', 1): s without the first occurrence of old.
ReplaceFirst(s, old) ==
    LET At(i) == i + Len(old) - 1 <= Len(s)
                 /\ SubSeq(s, i, i + Len(old) - 1) = old
        hits  == { i \in 1..Len(s) : At(i) }
    IN  IF old = <<>> \/ hits = {} THEN s
        ELSE LET i == CHOOSE h \in hits : \A k \in hits : h <= k
             IN  SubSeq(s, 1, i - 1) \o SubSeq(s, i + Len(old), Len(s))

\* The code point of a character, for the characters of the model's paths.
Ord(c) ==
    CASE c = "-" -> 45 [] c = "." -> 46 [] c = "/" -> 47
      [] c = "a" -> 97 [] c = "b" -> 98 [] c = "d" -> 100
      [] c = "f" -> 102 [] c = "g" -> 103

\* Python's order of two str values.
RECURSIVE StrLess(_, _)

StrLess(s, t) ==
    IF s = <<>> THEN t # <<>>
    ELSE IF t = <<>> THEN FALSE
    ELSE IF s[1] = t[1] THEN StrLess(Tail(s), Tail(t))
    ELSE Ord(s[1]) < Ord(t[1])

\* sorted(set(...)) of str values.
RECURSIVE SortedStrs(_)

SortedStrs(S) ==
    IF S = {} THEN <<>>
    ELSE LET m == CHOOSE x \in S : \A y \in S \ {x} : StrLess(x, y)
         IN  <<m>> \o SortedStrs(S \ {m})

\* utils.py:22 and 29: the path of a walked directory relative to the root.
RelativeDir(directory, dir_) ==
    LStripChars(ReplaceFirst(dir_, directory), {"/"})

directoriesDescending(directory, walk) ==
    Reverse(SortedStrs({ RelativeDir(directory, d) : d \in walk }))

\* utils.py:19-23.
directories(directory, walk) ==
    SortedStrs({ RelativeDir(directory, d) : d \in walk })

\* os.path.join of a relative directory and a file name.
OsJoin(a, b) ==
    IF a = <<>> THEN b
    ELSE IF a[Len(a)] = "/" THEN a \o b
    ELSE a \o <<"/">> \o b

\* utils.py:26-30.
files(directory, walked) ==
    [ i \in 1..Len(walked) |->
        OsJoin(RelativeDir(directory, walked[i][1]), walked[i][2]) ]

\* An entry of the trace; thread 0 is the main thread, 1..NumWorkers the
\* threads of the pool.
Event(ev, thread, arg) == [ev |-> ev, thread |-> thread, arg |-> arg]

\* __main__.py:62-68, upload_file up to its outcome: stack.file(file) either
\* returns (the file is skipped) or raises StackException; evaluating the
\* clause `except StackException` then raises NameError, since __main__.py
\* does not import that name, and stack.upload is not reached.
UploadFileOutcome(exists) == IF exists THEN "skipped" ELSE "NameError"

\* __main__.py:70-77: `upload` is entered; a file goes to upload_file on
\* the main thread, a directory to the mkdir loop.
BulkStart ==
    /\ bulkPc = "start"
    /\ IF bulkArg.isfile
       THEN /\ bulkPc' = "file"
            /\ bulkTodo' = <<>>
            /\ bulkEvents' =
                  Append(bulkEvents, Event("upload_file", 0, bulkArg.arg))
       ELSE /\ bulkPc' = "mkdirs"
            /\ bulkTodo' = directories(bulkArg.arg, bulkArg.dirs)
            /\ bulkEvents' = bulkEvents
    /\ UNCHANGED <<bulkArg, bulkCalling, bulkQueue, bulkWorkers>>

\* __main__.py:71: upload_file of the single file returns or raises.
FileDone(exists) ==
    /\ bulkPc = "file"
    /\ bulkPc' = IF exists THEN "done" ELSE "raised"
    /\ bulkEvents' =
          Append(bulkEvents,
                 Event(UploadFileOutcome(exists), 0, bulkArg.arg))
    /\ UNCHANGED <<bulkArg, bulkTodo, bulkCalling, bulkQueue, bulkWorkers>>

\* __main__.py:77-79: the loop calls stack.mkdir for the next directory.
MkdirCall ==
    /\ bulkPc = "mkdirs"
    /\ bulkCalling = None
    /\ bulkTodo # <<>>
    /\ bulkCalling' = Some(Head(bulkTodo))
    /\ bulkTodo' = Tail(bulkTodo)
    /\ bulkEvents' =
          Append(bulkEvents, Event("mkdir_call", 0, Head(bulkTodo)))
    /\ UNCHANGED <<bulkArg, bulkPc, bulkQueue, bulkWorkers>>

\* __main__.py:79: stack.mkdir returns, or raises StackException, which
\* ends `upload`.
MkdirReturn(ok) ==
    /\ bulkPc = "mkdirs"
    /\ bulkCalling # None
    /\ bulkCalling' = None
    /\ bulkPc' = IF ok THEN "mkdirs" ELSE "raised"
    /\ bulkEvents' =
          Append(bulkEvents,
                 Event(IF ok THEN "mkdir_return" ELSE "mkdir_raise", 0,
                       bulkCalling[1]))
    /\ UNCHANGED <<bulkArg, bulkTodo, bulkQueue, bulkWorkers>>

\* __main__.py:81-84: the loop is over; the pool is created and given the
\* files.
PoolStart ==
    /\ bulkPc = "mkdirs"
    /\ bulkCalling = None
    /\ bulkTodo = <<>>
    /\ bulkPc' = "pool"
    /\ bulkQueue' = files(bulkArg.arg, bulkArg.files)
    /\ bulkWorkers' = [w \in 1..NumWorkers |-> None]
    /\ UNCHANGED <<bulkArg, bulkTodo, bulkCalling, bulkEvents>>

\* A worker thread of the pool takes the next file and enters upload_file.
WorkerTake(w) ==
    /\ bulkPc = "pool"
    /\ bulkQueue # <<>>
    /\ bulkWorkers[w] = None
    /\ bulkWorkers' = [bulkWorkers EXCEPT ![w] = Some(Head(bulkQueue))]
    /\ bulkQueue' = Tail(bulkQueue)
    /\ bulkEvents' =
          Append(bulkEvents, Event("upload_file", w, Head(bulkQueue)))
    /\ UNCHANGED <<bulkArg, bulkPc, bulkTodo, bulkCalling>>

\* upload_file ends in the worker; the pool keeps what it raised.
WorkerDone(w, exists) ==
    /\ bulkPc = "pool"
    /\ bulkWorkers[w] # None
    /\ bulkWorkers' = [bulkWorkers EXCEPT ![w] = None]
    /\ bulkEvents' =
          Append(bulkEvents,
                 Event(UploadFileOutcome(exists), w, bulkWorkers[w][1]))
    /\ UNCHANGED <<bulkArg, bulkPc, bulkTodo, bulkCalling, bulkQueue>>

\* __main__.py:85-86: pool.join() returns once every task has ended.
PoolJoin ==
    /\ bulkPc = "pool"
    /\ bulkQueue = <<>>
    /\ \A w \in 1..NumWorkers : bulkWorkers[w] = None
    /\ bulkPc' = "done"
    /\ UNCHANGED <<bulkArg, bulkTodo, bulkCalling, bulkQueue, bulkWorkers,
                   bulkEvents>>

BulkInit ==
    /\ bulkArg \in BulkArgs
    /\ bulkPc = "start"
    /\ bulkTodo = <<>>
    /\ bulkCalling = None
    /\ bulkQueue = <<>>
    /\ bulkWorkers = <<>>
    /\ bulkEvents = <<>>

InitBulk ==
    /\ SessionInit /\ PathIdle /\ TransferIdle /\ ListIdle /\ UserIdle /\ NodeIdle
    /\ HttpIdle /\ BulkInit

notBulk ==
    <<sessionVars, pathVars, transferVars, listVars, userVars, nodeVars,
      httpVars>>

BulkNext ==
    \/ BulkStart /\ UNCHANGED notBulk
    \/ \E exists \in BOOLEAN : FileDone(exists) /\ UNCHANGED notBulk
    \/ MkdirCall /\ UNCHANGED notBulk
    \/ \E ok \in BOOLEAN : MkdirReturn(ok) /\ UNCHANGED notBulk
    \/ PoolStart /\ UNCHANGED notBulk
    \/ \E w \in 1..NumWorkers : WorkerTake(w) /\ UNCHANGED notBulk
    \/ \E w \in 1..NumWorkers, exists \in BOOLEAN :
          WorkerDone(w, exists) /\ UNCHANGED notBulk
    \/ PoolJoin /\ UNCHANGED notBulk

SpecBulk == InitBulk /\ [][BulkNext]_vars

\* ----------------------------------------------------- bulk upload: claims

MkdirCalls == { k \in 1..Len(bulkEvents) : bulkEvents[k].ev = "mkdir_call" }

WorkerStarts ==
    { k \in 1..Len(bulkEvents) :
        bulkEvents[k].ev = "upload_file" /\ bulkEvents[k].thread # 0 }

\* The call at position k has returned before position l.
ReturnedBefore(k, l) ==
    \E m \in 1..Len(bulkEvents) :
        /\ k < m /\ m < l
        /\ bulkEvents[m].ev = "mkdir_return"
        /\ bulkEvents[m].arg = bulkEvents[k].arg

\* The directories above a relative directory: the root '' and every prefix
\* that ends before a separator.
AncestorsOf(d) ==
    IF d = <<>> THEN {}
    ELSE {<<>>} \cup { SubSeq(d, 1, i - 1) : i \in { j \in 1..Len(d) : d[j] = "/" } }

\* The relative directories of the tree in hand.
TreeDirs == { RelativeDir(bulkArg.arg, d) : d \in bulkArg.dirs }

\* C25: in the bulk upload of a directory tree the directory-creation calls
\* are issued one at a time on a single thread, the call for a directory
\* comes after the call for each of its ancestors, and no worker starts a
\* file upload before the last directory-creation call has returned.
C25_DirectoriesBeforeUploads ==
    /\ \A k \in MkdirCalls : bulkEvents[k].thread = 0
    /\ \A k, l \in MkdirCalls : k < l => ReturnedBefore(k, l)
    /\ \A k \in MkdirCalls :
          \A a \in AncestorsOf(bulkEvents[k].arg) :
              \E j \in MkdirCalls : j < k /\ bulkEvents[j].arg = a
    /\ \A u \in WorkerStarts :
          /\ \A d \in TreeDirs :
                \E k \in MkdirCalls : k < u /\ bulkEvents[k].arg = d
          /\ \A k \in MkdirCalls : k < u /\ ReturnedBefore(k, u)

\* A tree three levels deep was created level by level, and both workers
\* are inside upload_file at once.
C25_Witness ==
    /\ \E k \in MkdirCalls : Cardinality(AncestorsOf(bulkEvents[k].arg)) = 2
    /\ bulkPc = "pool"
    /\ \A w \in 1..NumWorkers : bulkWorkers[w] # None

====
